---- MODULE Spec2Model ----
(***************************************************************************)
(* Shape inference of the neural-network operator schemas of               *)
(* onnx/defs/nn/defs.cc (ONNX 1.2.2): convPoolTypeAndShapeInference (Conv, *)
(* AveragePool, MaxPool, LpPool), convTransposeShapeInference              *)
(* (ConvTranspose) and roiPoolTypeShapeInference (MaxRoiPool).             *)
(*                                                                         *)
(* One behaviour is one invocation of an inference function on one node:   *)
(* Init draws the node (operator, input shapes, attributes), the actions   *)
(* run the function's code in order: its checks, the two leading output    *)
(* dimensions, then one step per iteration of its loop over the axes.      *)
(***************************************************************************)
EXTENDS Integers, Sequences, FiniteSets, TLC

VARIABLES
  op,      \* the node's operator
  in0,     \* shape of the first input (ctx.getInputType(0))
  in1,     \* shape of the second input (ctx.getInputType(1))
  attrs,   \* the node's attributes
  pc,      \* position in the inference function
  result,  \* how the invocation ended
  outSet,  \* the output's shape exists (mutable_shape() was called)
  out,     \* the dimensions added to the output shape so far
  loc,     \* the function's local variables
  ub       \* an out-of-range read or a division by zero has happened

vars == <<op, in0, in1, attrs, pc, result, outSet, out, loc, ub>>

(***************************************************************************)
(* Bounds of the node population.                                          *)
(***************************************************************************)
MaxSpatial == 2    \* spatial rank of the first input is at most this
MaxDim == 3        \* the larger known value of a spatial input dimension
MaxKernel == 2     \* the larger kernel extent
MaxStride == 2     \* the larger stride
MaxPad == 1        \* the larger padding
MaxDilation == 2   \* the larger dilation
MaxGroup == 2      \* the group count other than 1
MaxOutputPadding == 1  \* the larger output padding
MaxPooled == 2     \* the larger pooled extent

(***************************************************************************)
(* TensorShapeProto: a dimension holds a value, a symbolic parameter or    *)
(* nothing; dim_value() of a dimension without a value reads 0.            *)
(***************************************************************************)
DimUnset == [k |-> "unset", v |-> 0]
DimParam == [k |-> "param", v |-> 0]
DimVal(n) == [k |-> "value", v |-> n]
has_dim_value(d) == d.k = "value"
dim_value(d) == IF d.k = "value" THEN d.v ELSE 0

NoShape == [has |-> FALSE, dims |-> <<>>]
Shape(d) == [has |-> TRUE, dims |-> d]
dim_size(s) == Len(s.dims)

(***************************************************************************)
(* Attributes: absent, or present with a list of integers (INTS) or one    *)
(* integer (INT).                                                          *)
(***************************************************************************)
Absent == [has |-> FALSE, v |-> <<>>]
Ints(s) == [has |-> TRUE, v |-> s]
NoInt == [has |-> FALSE, v |-> 0]
Int1(n) == [has |-> TRUE, v |-> n]

\* getAttribute(ctx, name, default)
getAttribute(a, default) == IF a.has THEN a.v ELSE default

\* hasNInputShapes(ctx, n), n = 1 or 2
hasNInputShapes(n) == in0.has /\ (n >= 2 => in1.has)

\* std::vector::assign(n, x)
Assign(n, x) == [j \in 1 .. n |-> x]

\* C++ integer division: the quotient truncated towards zero (b # 0)
TruncDiv(a, b) ==
  LET aa == IF a < 0 THEN -a ELSE a
      bb == IF b < 0 THEN -b ELSE b
      q == aa \div bb
  IN IF (a < 0) = (b < 0) THEN q ELSE -q

(***************************************************************************)
(* Reads. s[idx] with idx counted from 0 as the code does; a read past the *)
(* end is undefined behaviour: the invocation may crash or go on with any  *)
(* value, here one of a few.                                               *)
(***************************************************************************)
GarbageInts == {-1, MaxDim + MaxKernel}
GarbageDims == {DimUnset, DimVal(MaxDim + MaxKernel)}
InRange(s, idx) == idx >= 0 /\ idx < Len(s)
ReadInt(s, idx) == IF InRange(s, idx) THEN {s[idx + 1]} ELSE GarbageInts
ReadDim(s, idx) == IF InRange(s, idx) THEN {s[idx + 1]} ELSE GarbageDims

(***************************************************************************)
(* The operators and how their schemas call the inference functions.       *)
(***************************************************************************)
PoolOps == {"AveragePool", "MaxPool", "LpPool"}
ConvPoolOps == PoolOps \cup {"Conv"}

\* convPoolTypeAndShapeInference(ctx, use_dilation, require_kernel_shape)
use_dilation(o) == o = "Conv"
\* (a variant: the pooling schemas pass false, as the Conv schema does)
require_kernel_shape_never(o) == o \notin ConvPoolOps
require_kernel_shape(o) == o \in PoolOps

NoLocals ==
  [n |-> 0, dilations |-> <<>>, pads |-> <<>>, strides |-> <<>>,
   kernel_shape |-> <<>>, output_shape |-> <<>>, output_padding |-> <<>>,
   i |-> 0]

(***************************************************************************)
(* convPoolTypeAndShapeInference, the checks.                              *)
(***************************************************************************)
\* the kernel taken from the second input: its dimensions from index 2 on
\* (a variant: only the first of them is looked at)
KernelDimsKnownFirst(dims) == Len(dims) >= 3 => has_dim_value(dims[3])
KernelDimsKnown(dims) == \A j \in 3 .. Len(dims) : has_dim_value(dims[j])
KernelDims(dims) ==
  [j \in 1 .. (IF Len(dims) > 2 THEN Len(dims) - 2 ELSE 0) |-> dims[j + 2].v]

\* "we don't handle the group case"
\* (a variant: only a group count below 1 is turned away)
ConvPoolGroupBelowOne(groups) == groups < 1
ConvPoolGroupUnhandled(groups) == groups # 1

ConvPoolDilationsBad(d, n) == Len(d) # n
\* (a variant: only pads that are too short are turned away)
ConvPoolPadsShort(p, n) == Len(p) < n * 2
ConvPoolPadsBad(p, n) == Len(p) # n * 2
ConvPoolStridesBad(s, n) == Len(s) # n
ConvPoolKernelBad(k, n) == Len(k) # n

Stop(how) == [res |-> how, loc |-> NoLocals]

ConvPoolChecks(use_dil, require_kernel) ==
  IF ~hasNInputShapes(1) THEN Stop("return")
  ELSE IF ~require_kernel /\ ~hasNInputShapes(2) THEN Stop("return")
  ELSE IF attrs.auto_pad THEN Stop("return")
  ELSE IF dim_size(in0) < 2 THEN Stop("fail")
  ELSE
    LET n == dim_size(in0) - 2
        readDil == use_dil /\ attrs.dilations.has
        dilations == IF readDil THEN attrs.dilations.v ELSE Assign(n, 1)
        pads == IF attrs.pads.has THEN attrs.pads.v ELSE Assign(n * 2, 0)
        strides == IF attrs.strides.has THEN attrs.strides.v ELSE Assign(n, 1)
        kernel_shape ==
          IF attrs.kernel_shape.has THEN attrs.kernel_shape.v
          ELSE KernelDims(in1.dims)
    IN
      IF readDil /\ ConvPoolDilationsBad(dilations, n) THEN Stop("fail")
      ELSE IF ConvPoolGroupUnhandled(getAttribute(attrs.group, 1))
        THEN Stop("return")
      ELSE IF attrs.pads.has /\ ConvPoolPadsBad(pads, n) THEN Stop("fail")
      ELSE IF attrs.strides.has /\ ConvPoolStridesBad(strides, n)
        THEN Stop("fail")
      ELSE IF attrs.kernel_shape.has /\ ConvPoolKernelBad(kernel_shape, n)
        THEN Stop("fail")
      ELSE IF ~attrs.kernel_shape.has /\ require_kernel THEN Stop("fail")
      ELSE IF ~attrs.kernel_shape.has /\ ~KernelDimsKnown(in1.dims)
        THEN Stop("return")
      ELSE [res |-> "go",
            loc |-> [NoLocals EXCEPT !.n = n, !.dilations = dilations,
                       !.pads = pads, !.strides = strides,
                       !.kernel_shape = kernel_shape]]

ConvPoolValidate ==
  /\ pc = "start"
  /\ op \in ConvPoolOps
  /\ LET c == ConvPoolChecks(use_dilation(op), require_kernel_shape(op))
     IN /\ loc' = c.loc
        /\ pc' = IF c.res = "go" THEN "header" ELSE "done"
        /\ result' = IF c.res = "go" THEN result ELSE c.res
  /\ UNCHANGED <<op, in0, in1, attrs, outSet, out, ub>>

(***************************************************************************)
(* convPoolTypeAndShapeInference, the batch and channel dimensions.        *)
(***************************************************************************)
\* where the function goes after the leading dimensions: into the loop over
\* the kernel's axes, or to its end when there is none
AfterHeader(nAxes) == IF nAxes > 0 THEN "loop" ELSE "done"
EndIfDone(nAxes) == IF nAxes > 0 THEN result ELSE "return"

\* the channel dimension: the first input's for the operators that require
\* kernel_shape, else the leading dimension of the second input
\* (a variant: always the first input's)
ConvPoolChannelOfInput(require_kernel) == in0.dims[2]
ConvPoolChannel(require_kernel) ==
  IF require_kernel THEN in0.dims[2] ELSE in1.dims[1]

\* "Second input tensor has wrong dimension"
\* (a variant: a second input of rank 1 is turned away as well)
ConvPoolWeightRankBelowTwo(w) == dim_size(w) < 2
ConvPoolWeightRankBad(w) == dim_size(w) < 1

ConvPoolHeader ==
  /\ pc = "header"
  /\ op \in ConvPoolOps
  /\ outSet' = TRUE
  /\ IF require_kernel_shape(op)
       THEN /\ out' = <<in0.dims[1], ConvPoolChannel(TRUE)>>
            /\ pc' = AfterHeader(Len(loc.kernel_shape))
            /\ result' = EndIfDone(Len(loc.kernel_shape))
       ELSE IF ConvPoolWeightRankBad(in1)
         THEN /\ out' = <<in0.dims[1]>>
              /\ pc' = "done"
              /\ result' = "fail"
         ELSE /\ out' = <<in0.dims[1], ConvPoolChannel(FALSE)>>
              /\ pc' = AfterHeader(Len(loc.kernel_shape))
              /\ result' = EndIfDone(Len(loc.kernel_shape))
  /\ UNCHANGED <<op, in0, in1, attrs, loc, ub>>

(***************************************************************************)
(* convPoolTypeAndShapeInference, one iteration of the loop over the       *)
(* kernel's axes.                                                          *)
(***************************************************************************)
\* the output dimension of one axis, from the values read for it
ConvPoolDim(input, padBegin, padEnd, kernel, dilation, stride) ==
  LET effective_input_size == input + padBegin + padEnd
      effective_kernel_size == (kernel - 1) * dilation + 1
      strided_kernel_positions ==
        TruncDiv(effective_input_size - effective_kernel_size, stride)
  IN 1 + strided_kernel_positions

\* the index of the pad at the end of axis i
ConvPoolPadEndIndex(i, kernel_shape_size) == i + kernel_shape_size

\* the loop's bookkeeping, shared by the two functions that loop
NextAxis(i, nAxes) == IF i + 1 < nAxes THEN "loop" ELSE "done"

ConvPoolAxis ==
  /\ pc = "loop"
  /\ op \in ConvPoolOps
  /\ LET i == loc.i
         size == Len(loc.kernel_shape)
         oobDim == ~InRange(in0.dims, 2 + i)
         oobRest == \/ ~InRange(loc.pads, i)
                    \/ ~InRange(loc.pads, ConvPoolPadEndIndex(i, size))
                    \/ ~InRange(loc.dilations, i)
                    \/ ~InRange(loc.strides, i)
     IN \E d \in ReadDim(in0.dims, 2 + i) :
          IF ~has_dim_value(d)
            THEN \/ /\ out' = Append(out, DimUnset)
                    /\ ub' = (ub \/ oobDim)
                    /\ pc' = NextAxis(i, size)
                    /\ result' = IF i + 1 < size THEN result ELSE "return"
                    /\ loc' = [loc EXCEPT !.i = i + 1]
                 \/ /\ oobDim
                    /\ out' = Append(out, DimUnset)
                    /\ ub' = TRUE
                    /\ pc' = "done"
                    /\ result' = "crash"
                    /\ loc' = loc
            ELSE \E p1 \in ReadInt(loc.pads, i),
                    p2 \in ReadInt(loc.pads, ConvPoolPadEndIndex(i, size)),
                    dl \in ReadInt(loc.dilations, i),
                    s \in ReadInt(loc.strides, i) :
                   \/ /\ s # 0
                      /\ out' = Append(out,
                           DimVal(ConvPoolDim(d.v, p1, p2,
                                              loc.kernel_shape[i + 1], dl, s)))
                      /\ ub' = (ub \/ oobDim \/ oobRest)
                      /\ pc' = NextAxis(i, size)
                      /\ result' = IF i + 1 < size THEN result ELSE "return"
                      /\ loc' = [loc EXCEPT !.i = i + 1]
                   \/ /\ s = 0
                      /\ \E g \in GarbageInts :
                           out' = Append(out, DimVal(g))
                      /\ ub' = TRUE
                      /\ pc' = NextAxis(i, size)
                      /\ result' = IF i + 1 < size THEN result ELSE "return"
                      /\ loc' = [loc EXCEPT !.i = i + 1]
                   \/ /\ (oobDim \/ oobRest \/ s = 0)
                      /\ out' = Append(out, DimUnset)
                      /\ ub' = TRUE
                      /\ pc' = "done"
                      /\ result' = "crash"
                      /\ loc' = loc
  /\ UNCHANGED <<op, in0, in1, attrs, outSet>>

(***************************************************************************)
(* convTransposeShapeInference, the checks: every one of them returns.     *)
(***************************************************************************)
ConvTransposeGroupUnhandled(groups) == groups # 1

\* "we don't handle the dialations"
\* (a variant: only dilations other than all 1 are turned away)
ConvTransposeDilationsNotOnes(d) == d.has /\ \E j \in 1 .. Len(d.v) : d.v[j] # 1
ConvTransposeDilationsGiven(d) == d.has

ConvTransposePadsBad(p, n) == Len(p) # n * 2
ConvTransposeStridesBad(s, n) == Len(s) # n
ConvTransposeKernelBad(k, n) == Len(k) # n
ConvTransposeOutputShapeBad(o, n) == Len(o) # n
ConvTransposeOutputPaddingBad(o, n) == Len(o) # n

ConvTransposeChecks ==
  IF ~hasNInputShapes(2) THEN Stop("return")
  ELSE IF attrs.auto_pad THEN Stop("return")
  ELSE IF dim_size(in0) < 2 THEN Stop("return")
  ELSE
    LET n == dim_size(in0) - 2
        pads == IF attrs.pads.has THEN attrs.pads.v ELSE Assign(n * 2, 0)
        strides == IF attrs.strides.has THEN attrs.strides.v ELSE Assign(n, 1)
        kernel_shape ==
          IF attrs.kernel_shape.has THEN attrs.kernel_shape.v
          ELSE KernelDims(in1.dims)
        output_shape == attrs.output_shape.v
        output_padding ==
          IF attrs.output_padding.has THEN attrs.output_padding.v
          ELSE Assign(n, 0)
    IN
      IF ConvTransposeGroupUnhandled(getAttribute(attrs.group, 1))
        THEN Stop("return")
      ELSE IF ConvTransposeDilationsGiven(attrs.dilations) THEN Stop("return")
      ELSE IF attrs.pads.has /\ ConvTransposePadsBad(pads, n)
        THEN Stop("return")
      ELSE IF attrs.strides.has /\ ConvTransposeStridesBad(strides, n)
        THEN Stop("return")
      ELSE IF attrs.kernel_shape.has /\ ConvTransposeKernelBad(kernel_shape, n)
        THEN Stop("return")
      ELSE IF ~attrs.kernel_shape.has /\ ~KernelDimsKnown(in1.dims)
        THEN Stop("return")
      ELSE IF attrs.output_shape.has
                /\ ConvTransposeOutputShapeBad(output_shape, n)
        THEN Stop("return")
      ELSE IF attrs.output_padding.has
                /\ ConvTransposeOutputPaddingBad(output_padding, n)
        THEN Stop("return")
      ELSE [res |-> "go",
            loc |-> [NoLocals EXCEPT !.n = n, !.pads = pads,
                       !.strides = strides, !.kernel_shape = kernel_shape,
                       !.output_shape = output_shape,
                       !.output_padding = output_padding]]

ConvTransposeValidate ==
  /\ pc = "start"
  /\ op = "ConvTranspose"
  /\ LET c == ConvTransposeChecks
     IN /\ loc' = c.loc
        /\ pc' = IF c.res = "go" THEN "header" ELSE "done"
        /\ result' = IF c.res = "go" THEN result ELSE c.res
  /\ UNCHANGED <<op, in0, in1, attrs, outSet, out, ub>>

(***************************************************************************)
(* convTransposeShapeInference, the batch and channel dimensions: the      *)
(* channel is dimension 1 of the second input, read whatever its rank.     *)
(***************************************************************************)
\* which loop follows: over output_shape when it has entries, else over the
\* kernel's axes
ConvTransposeAfterHeader(size_of_output, kernel_shape_size) ==
  IF size_of_output > 0 THEN "given" ELSE AfterHeader(kernel_shape_size)

ConvTransposeHeader ==
  /\ pc = "header"
  /\ op = "ConvTranspose"
  /\ outSet' = TRUE
  /\ LET size_of_output == Len(loc.output_shape)
         kernel_shape_size == Len(loc.kernel_shape)
         oob == ~InRange(in1.dims, 1)
         next == ConvTransposeAfterHeader(size_of_output, kernel_shape_size)
     IN \/ \E c \in ReadDim(in1.dims, 1) :
             /\ out' = <<in0.dims[1], c>>
             /\ ub' = (ub \/ oob)
             /\ pc' = next
             /\ result' = IF next = "done" THEN "return" ELSE result
          \/ /\ oob
             /\ out' = <<in0.dims[1]>>
             /\ ub' = TRUE
             /\ pc' = "done"
             /\ result' = "crash"
  /\ UNCHANGED <<op, in0, in1, attrs, loc>>

(***************************************************************************)
(* convTransposeShapeInference, one iteration of the loop over an explicit *)
(* output_shape.                                                           *)
(***************************************************************************)
\* "output shape value cannot be smaller than the input shape value"
\* (a variant: an output extent equal to the input's is turned away too)
OutputShapeNotLarger(o, d) == o <= dim_value(d)
\* (a variant: an output extent one below the input's is let through)
OutputShapeFarTooSmall(o, d) == o + 1 < dim_value(d)
OutputShapeTooSmall(o, d) == o < dim_value(d)

ConvTransposeGivenAxis ==
  /\ pc = "given"
  /\ op = "ConvTranspose"
  /\ LET i == loc.i
         size_of_output == Len(loc.output_shape)
     IN IF OutputShapeTooSmall(loc.output_shape[i + 1], in0.dims[i + 3])
          THEN /\ out' = out
               /\ pc' = "done"
               /\ result' = "return"
               /\ loc' = loc
          ELSE /\ out' = Append(out, DimVal(loc.output_shape[i + 1]))
               /\ pc' = IF i + 1 < size_of_output THEN "given" ELSE "done"
               /\ result' = IF i + 1 < size_of_output THEN result ELSE "return"
               /\ loc' = [loc EXCEPT !.i = i + 1]
  /\ UNCHANGED <<op, in0, in1, attrs, outSet, ub>>

(***************************************************************************)
(* convTransposeShapeInference, one iteration of the loop over the         *)
(* kernel's axes.                                                          *)
(***************************************************************************)
ConvTransposeDim(input, stride, outPad, kernel, padBegin, padEnd) ==
  stride * (input - 1) + (outPad + kernel) - padBegin - padEnd

ConvTransposePadEndIndex(i, kernel_shape_size) == i + kernel_shape_size

ConvTransposeAxis ==
  /\ pc = "loop"
  /\ op = "ConvTranspose"
  /\ LET i == loc.i
         size == Len(loc.kernel_shape)
         oobDim == ~InRange(in0.dims, 2 + i)
         oobRest == \/ ~InRange(loc.strides, i)
                    \/ ~InRange(loc.output_padding, i)
                    \/ ~InRange(loc.pads, i)
                    \/ ~InRange(loc.pads, ConvTransposePadEndIndex(i, size))
     IN \E d \in ReadDim(in0.dims, 2 + i) :
          IF ~has_dim_value(d)
            THEN \/ /\ out' = Append(out, DimUnset)
                    /\ ub' = (ub \/ oobDim)
                    /\ pc' = NextAxis(i, size)
                    /\ result' = IF i + 1 < size THEN result ELSE "return"
                    /\ loc' = [loc EXCEPT !.i = i + 1]
                 \/ /\ oobDim
                    /\ out' = Append(out, DimUnset)
                    /\ ub' = TRUE
                    /\ pc' = "done"
                    /\ result' = "crash"
                    /\ loc' = loc
            ELSE \E s \in ReadInt(loc.strides, i),
                    o \in ReadInt(loc.output_padding, i),
                    p1 \in ReadInt(loc.pads, i),
                    p2 \in ReadInt(loc.pads, ConvTransposePadEndIndex(i, size)) :
                   \/ /\ out' = Append(out,
                           DimVal(ConvTransposeDim(d.v, s, o,
                                    loc.kernel_shape[i + 1], p1, p2)))
                      /\ ub' = (ub \/ oobDim \/ oobRest)
                      /\ pc' = NextAxis(i, size)
                      /\ result' = IF i + 1 < size THEN result ELSE "return"
                      /\ loc' = [loc EXCEPT !.i = i + 1]
                   \/ /\ (oobDim \/ oobRest)
                      /\ out' = Append(out, DimUnset)
                      /\ ub' = TRUE
                      /\ pc' = "done"
                      /\ result' = "crash"
                      /\ loc' = loc
  /\ UNCHANGED <<op, in0, in1, attrs, outSet>>

(***************************************************************************)
(* roiPoolTypeShapeInference: the checks, all of them failures but the     *)
(* first, then the four output dimensions.                                 *)
(***************************************************************************)
RoiPoolPooledShapeBad(p, n) == Len(p) # n

RoiPoolChecks ==
  IF ~hasNInputShapes(2) THEN Stop("return")
  ELSE IF dim_size(in0) < 2 THEN Stop("fail")
  ELSE IF dim_size(in1) # 2 THEN Stop("fail")
  ELSE
    LET n == dim_size(in0) - 2
    IN IF attrs.pooled_shape.has
         THEN IF RoiPoolPooledShapeBad(attrs.pooled_shape.v, n)
                THEN Stop("fail")
                ELSE [res |-> "go",
                      loc |-> [NoLocals EXCEPT !.n = n,
                                 !.output_shape = attrs.pooled_shape.v]]
         ELSE Stop("fail")

RoiPoolValidate ==
  /\ pc = "start"
  /\ op = "MaxRoiPool"
  /\ LET c == RoiPoolChecks
     IN /\ loc' = c.loc
        /\ pc' = IF c.res = "go" THEN "header" ELSE "done"
        /\ result' = IF c.res = "go" THEN result ELSE c.res
  /\ UNCHANGED <<op, in0, in1, attrs, outSet, out, ub>>

RoiPoolWrite ==
  /\ pc = "header"
  /\ op = "MaxRoiPool"
  /\ outSet' = TRUE
  /\ LET pooled_shape == loc.output_shape
         lead == <<in1.dims[1], in0.dims[2]>>
         oob0 == ~InRange(pooled_shape, 0)
         oob1 == ~InRange(pooled_shape, 1)
     IN \/ \E h \in ReadInt(pooled_shape, 0), w \in ReadInt(pooled_shape, 1) :
             /\ out' = lead \o <<DimVal(h), DimVal(w)>>
             /\ ub' = (ub \/ oob0 \/ oob1)
             /\ result' = "return"
          \/ /\ oob0
             /\ out' = lead \o <<DimUnset>>
             /\ ub' = TRUE
             /\ result' = "crash"
          \/ /\ oob1
             /\ \E h0 \in ReadInt(pooled_shape, 0) :
                  out' = lead \o <<DimVal(h0), DimUnset>>
             /\ ub' = TRUE
             /\ result' = "crash"
  /\ pc' = "done"
  /\ UNCHANGED <<op, in0, in1, attrs, loc>>

(***************************************************************************)
(* The nodes inference is run on. A node whose checks pass and whose first *)
(* input has at most one spatial axis carries every combination of values  *)
(* ("full"); one with more axes carries values that differ from index to   *)
(* index, rising or falling, and an unknown dimension at each position     *)
(* ("ramp"); a node that a check stops carries one value everywhere        *)
(* ("base"), since the code reads none of them.                            *)
(***************************************************************************)
SeqsOf(S, n) == [1 .. n -> S]
Ramp(len, lo) == [j \in 1 .. len |-> lo + j - 1]
RampDown(len, lo) == [j \in 1 .. len |-> lo + len - j]

\* batch and channel dimensions: a value, a symbol and nothing each occur
LeadPairs == {<<DimParam, DimVal(2)>>, <<DimVal(1), DimUnset>>,
              <<DimUnset, DimParam>>}
LeadsOf(mode) == IF mode = "full" THEN LeadPairs ELSE {<<DimParam, DimVal(2)>>}

SpatialDims == {DimUnset, DimVal(1), DimVal(MaxDim)}
KernelInputDims == {DimUnset, DimVal(1), DimVal(MaxKernel)}
PadVals == {0, MaxPad}
StrideVals == {0, 1, MaxStride}
KernelVals == {1, MaxKernel}
DilationVals == {1, MaxDilation}
GroupAttrs == {NoInt, Int1(1), Int1(MaxGroup)}

\* the dimensions after the first two
TailsOf(len, dims, hi, mode) ==
  IF mode = "full" THEN SeqsOf(dims, len)
  ELSE IF mode = "ramp"
    THEN LET up == [j \in 1 .. len |-> DimVal(Ramp(len, 1)[j])]
             down == [j \in 1 .. len |-> DimVal(RampDown(len, 1)[j])]
         IN {up, down} \cup {[up EXCEPT ![q] = DimUnset] : q \in 1 .. len}
  ELSE {Assign(len, DimVal(hi))}

\* a second input the kernel is taken from (wanted) also comes with all its
\* dimensions after the first two unknown
UnknownTails(len, wanted) ==
  IF wanted /\ len >= 1 THEN {Assign(len, DimUnset)} ELSE {}

\* the shapes of rank r (r = -1: the input has no shape)
ShapesOf(r, leads, tails) ==
  IF r < 0 THEN {NoShape}
  ELSE IF r = 0 THEN {Shape(<<>>)}
  ELSE IF r = 1 THEN {Shape(<<l[1]>>) : l \in leads}
  ELSE {Shape(l \o t) : l \in leads, t \in tails}

\* the INTS attributes of length len (len = -1: absent)
IntsOf(len, vals, lo, mode) ==
  IF len < 0 THEN {Absent}
  ELSE IF mode = "full" THEN {Ints(s) : s \in SeqsOf(vals, len)}
  ELSE IF mode = "ramp" THEN {Ints(Ramp(len, lo)), Ints(RampDown(len, lo))}
  ELSE {Ints(Assign(len, lo))}

\* the lengths an attribute takes: absent, the right one, one too many
LensOf(right) == {-1, right, right + 1}

ModeOf(pass, n) == IF ~pass THEN "base" ELSE IF n <= 1 THEN "full" ELSE "ramp"

InitRun ==
  /\ pc = "start"
  /\ result = "running"
  /\ outSet = FALSE
  /\ out = <<>>
  /\ loc = NoLocals
  /\ ub = FALSE

InitConvPool ==
  /\ InitRun
  /\ \E o \in ConvPoolOps, r \in -1 .. (MaxSpatial + 2), ap \in BOOLEAN,
        g \in GroupAttrs :
       LET n == IF r >= 2 THEN r - 2 ELSE 0
           conv == o = "Conv"
       IN \E lp \in LensOf(2 * n), ls \in LensOf(n), lk \in LensOf(n),
             ld \in (IF conv THEN LensOf(n) ELSE {-1, n}),
             rw \in (IF conv THEN {-1, 0, 1, n + 1, n + 2, n + 3} ELSE {-1}) :
            LET pass == /\ r >= 2
                        /\ ~ap
                        /\ getAttribute(g, 1) = 1
                        /\ lp \in {-1, 2 * n}
                        /\ ls \in {-1, n}
                        /\ lk \in {-1, n}
                        /\ ld \in {-1, n}
                        /\ (conv => rw >= 1)
                        /\ (lk = -1 => conv)
                mode == ModeOf(pass, n)
                modeW == IF lk = -1 THEN mode ELSE "base"
            IN \E x \in ShapesOf(r, LeadsOf(mode),
                                 TailsOf(r - 2, SpatialDims, MaxDim, mode)),
                  w \in ShapesOf(rw, LeadsOf(modeW),
                                 TailsOf(rw - 2, KernelInputDims, MaxKernel,
                                         modeW)
                                   \cup UnknownTails(rw - 2, lk = -1)),
                  p \in IntsOf(lp, PadVals, 0, mode),
                  s \in IntsOf(ls, StrideVals, 1, mode),
                  k \in IntsOf(lk, KernelVals, 1, mode),
                  d \in IntsOf(ld, DilationVals, 1, mode) :
                 /\ op = o
                 /\ in0 = x
                 /\ in1 = w
                 /\ attrs = [auto_pad |-> ap, group |-> g, dilations |-> d,
                             pads |-> p, strides |-> s, kernel_shape |-> k,
                             output_shape |-> Absent,
                             output_padding |-> Absent,
                             pooled_shape |-> Absent]

NextConvPool == ConvPoolValidate \/ ConvPoolHeader \/ ConvPoolAxis

SpecConvPool == InitConvPool /\ [][NextConvPool]_vars

OutputShapeVals == {0, MaxDim, MaxDim + 1}
OutputPaddingVals == {0, MaxOutputPadding}
TransposeStrideVals == {1, MaxStride}

InitConvTranspose ==
  /\ InitRun
  /\ \E r \in -1 .. (MaxSpatial + 2), ap \in BOOLEAN, g \in GroupAttrs,
        dl \in BOOLEAN :
       LET n == IF r >= 2 THEN r - 2 ELSE 0
       IN \E lp \in LensOf(2 * n), ls \in LensOf(n), lk \in LensOf(n),
             lo \in LensOf(n), lq \in LensOf(n) :
            LET pass == /\ r >= 2
                        /\ ~ap
                        /\ getAttribute(g, 1) = 1
                        /\ ~dl
                        /\ lp \in {-1, 2 * n}
                        /\ ls \in {-1, n}
                        /\ lk \in {-1, n}
                        /\ lo \in {-1, n}
                        /\ lq \in {-1, n}
            IN \E rw \in (IF pass THEN {-1, 0, 1, n + 1, n + 2, n + 3}
                                  ELSE {-1, n + 2}) :
                 LET mode == ModeOf(pass /\ rw >= 0, n)
                     modeW == IF lk = -1 THEN mode ELSE "base"
                 IN \E x \in ShapesOf(r, LeadsOf(mode),
                                TailsOf(r - 2, SpatialDims, MaxDim, mode)),
                       w \in ShapesOf(rw, LeadsOf(modeW),
                                TailsOf(rw - 2, KernelInputDims, MaxKernel,
                                        modeW)),
                       p \in IntsOf(lp, PadVals, 0, mode),
                       s \in IntsOf(ls, TransposeStrideVals, 1, mode),
                       k \in IntsOf(lk, KernelVals, 1, mode),
                       o \in IntsOf(lo, OutputShapeVals, 1, mode),
                       q \in IntsOf(lq, OutputPaddingVals, 0, mode) :
                      /\ op = "ConvTranspose"
                      /\ in0 = x
                      /\ in1 = w
                      /\ attrs = [auto_pad |-> ap, group |-> g,
                                  dilations |-> IF dl THEN Ints(Assign(n, 1))
                                                      ELSE Absent,
                                  pads |-> p, strides |-> s,
                                  kernel_shape |-> k, output_shape |-> o,
                                  output_padding |-> q,
                                  pooled_shape |-> Absent]

NextConvTranspose ==
  \/ ConvTransposeValidate
  \/ ConvTransposeHeader
  \/ ConvTransposeGivenAxis
  \/ ConvTransposeAxis

SpecConvTranspose == InitConvTranspose /\ [][NextConvTranspose]_vars

PooledVals == {1, MaxPooled}
RoisShapes ==
  {NoShape, Shape(<<>>), Shape(<<DimVal(1)>>),
   Shape(<<DimVal(1), DimVal(5), DimVal(1)>>)}
    \cup {Shape(<<d, DimVal(5)>>) : d \in {DimUnset, DimParam, DimVal(MaxDim)}}

InitRoiPool ==
  /\ InitRun
  /\ \E r \in -1 .. (MaxSpatial + 3), w \in RoisShapes,
        lp \in -1 .. (MaxSpatial + 1) :
       \E x \in ShapesOf(r, LeadPairs, {Assign(r - 2, DimVal(MaxDim))}),
          ps \in IntsOf(lp, PooledVals, 1, "full") :
         /\ op = "MaxRoiPool"
         /\ in0 = x
         /\ in1 = w
         /\ attrs = [auto_pad |-> FALSE, group |-> NoInt,
                     dilations |-> Absent, pads |-> Absent,
                     strides |-> Absent, kernel_shape |-> Absent,
                     output_shape |-> Absent, output_padding |-> Absent,
                     pooled_shape |-> ps]

NextRoiPool == RoiPoolValidate \/ RoiPoolWrite

SpecRoiPool == InitRoiPool /\ [][NextRoiPool]_vars

(***************************************************************************)
(* The node as the documentation reads it: the spatial rank of the first   *)
(* input and the attributes with their defaults applied.                   *)
(***************************************************************************)
SpatialRank == dim_size(in0) - 2
Known(i) == has_dim_value(in0.dims[3 + i])
Groups == getAttribute(attrs.group, 1)
Pads == IF attrs.pads.has THEN attrs.pads.v ELSE Assign(2 * SpatialRank, 0)
Strides == IF attrs.strides.has THEN attrs.strides.v ELSE Assign(SpatialRank, 1)
Kernel ==
  IF attrs.kernel_shape.has THEN attrs.kernel_shape.v ELSE KernelDims(in1.dims)
Dilations ==
  IF op = "Conv" /\ attrs.dilations.has THEN attrs.dilations.v
  ELSE Assign(SpatialRank, 1)

\* the mathematical floor of a / b (b # 0)
FloorDiv(a, b) == IF b > 0 THEN a \div b ELSE (-a) \div (-b)

Finished == pc = "done"
ConvPoolDone == Finished /\ op \in ConvPoolOps
NothingWritten == ~outSet /\ out = <<>>

\* an attribute is present with a length other than the one its axes need
BadLen(a, right) == a.has /\ Len(a.v) # right
PadsMalformed == BadLen(attrs.pads, 2 * SpatialRank)
StridesMalformed == BadLen(attrs.strides, SpatialRank)
KernelMalformed == BadLen(attrs.kernel_shape, SpatialRank)
DilationsMalformed == op = "Conv" /\ BadLen(attrs.dilations, SpatialRank)

(***************************************************************************)
(* C1. Sliding-window inference that completes with an output shape gives, *)
(* on every spatial axis i whose input dimension is known, the dimension   *)
(* floor((input + pads[i] + pads[i + rank] - ((kernel[i]-1)*dilation[i]    *)
(* + 1)) / strides[i]) + 1, floor being the mathematical floor. Stated for *)
(* the nodes where the quotient is defined: a kernel with one extent per   *)
(* axis and non-zero strides.                                              *)
(***************************************************************************)
C1_FloorDim(i) ==
  FloorDiv(in0.dims[3 + i].v + Pads[i + 1] + Pads[i + 1 + SpatialRank]
             - ((Kernel[i + 1] - 1) * Dilations[i + 1] + 1),
           Strides[i + 1]) + 1

C1_OutputIsFloorFormula ==
  (/\ ConvPoolDone
   /\ result = "return"
   /\ outSet
   /\ Len(Kernel) = SpatialRank
   /\ \A i \in 0 .. SpatialRank - 1 : Strides[i + 1] # 0)
  => \A i \in 0 .. SpatialRank - 1 :
       Known(i) => /\ Len(out) >= 3 + i
                   /\ out[3 + i] = DimVal(C1_FloorDim(i))

(***************************************************************************)
(* C2. With the first input's shape known, a pads, strides, kernel_shape   *)
(* or (Conv) dilations attribute of the wrong length ends inference in a   *)
(* hard failure. As claimed: whatever the other attributes are. As the     *)
(* code has it: when auto_pad is absent, Conv's second input has a shape,  *)
(* and (except for dilations, checked earlier) group is 1.                 *)
(***************************************************************************)
C2_MalformedAlwaysFails ==
  (/\ ConvPoolDone
   /\ in0.has
   /\ (PadsMalformed \/ StridesMalformed \/ KernelMalformed
         \/ DilationsMalformed))
  => result = "fail"

C2_MalformedFailsPastEarlyReturns ==
  (/\ ConvPoolDone
   /\ in0.has
   /\ (op = "Conv" => in1.has)
   /\ ~attrs.auto_pad
   /\ \/ DilationsMalformed
      \/ /\ Groups = 1
         /\ (PadsMalformed \/ StridesMalformed \/ KernelMalformed))
  => result = "fail" /\ NothingWritten

\* only the pads are malformed, and the node fails
C2_Witness ==
  /\ ConvPoolDone
  /\ SpatialRank >= 1
  /\ ~attrs.auto_pad
  /\ Groups = 1
  /\ PadsMalformed
  /\ ~StridesMalformed /\ ~KernelMalformed /\ ~DilationsMalformed
  /\ attrs.kernel_shape.has
  /\ result = "fail"

(***************************************************************************)
(* C3. Conv with group other than 1 never writes an output shape. As       *)
(* claimed: it always returns without error. As the code has it: the rank  *)
(* of the first input and the length of dilations are checked before       *)
(* group, so it fails hard exactly when both input shapes are known,       *)
(* auto_pad is absent and the first input has rank below 2 or dilations    *)
(* has the wrong length; otherwise it returns without error.               *)
(***************************************************************************)
C3_GroupAlwaysSkips ==
  (ConvPoolDone /\ op = "Conv" /\ Groups # 1)
  => result = "return" /\ NothingWritten

C3_FailsBeforeGroup ==
  /\ in0.has
  /\ in1.has
  /\ ~attrs.auto_pad
  /\ (dim_size(in0) < 2 \/ DilationsMalformed)

C3_GroupSkipsUnlessCheckedBefore ==
  (ConvPoolDone /\ op = "Conv" /\ Groups # 1)
  => /\ NothingWritten
     /\ result = (IF C3_FailsBeforeGroup THEN "fail" ELSE "return")

\* the group return is what ends it: everything before passes, and the pads
\* checked after it are malformed
C3_Witness ==
  /\ ConvPoolDone
  /\ op = "Conv"
  /\ Groups # 1
  /\ in0.has /\ in1.has /\ ~attrs.auto_pad
  /\ SpatialRank >= 1
  /\ ~DilationsMalformed
  /\ PadsMalformed
  /\ result = "return"

(***************************************************************************)
(* C4. A pooling node without kernel_shape never gets an output shape. As  *)
(* claimed: inference returns silently. As the code has it: it is a hard   *)
(* failure ("Attribute kernel_shape must be specified") whenever the first *)
(* input's shape is known, auto_pad is absent and group is 1 (or the rank  *)
(* is below 2), and a silent return only when an earlier return is taken.  *)
(***************************************************************************)
C4_MissingKernelSkips ==
  (ConvPoolDone /\ op \in PoolOps /\ ~attrs.kernel_shape.has)
  => result = "return" /\ NothingWritten

C4_MissingKernelFails ==
  (ConvPoolDone /\ op \in PoolOps /\ ~attrs.kernel_shape.has)
  => /\ NothingWritten
     /\ result = (IF /\ in0.has
                     /\ ~attrs.auto_pad
                     /\ (dim_size(in0) < 2 \/ Groups = 1)
                  THEN "fail" ELSE "return")

\* kernel_shape is all that is wrong with the node
C4_Witness ==
  /\ ConvPoolDone
  /\ op \in PoolOps
  /\ ~attrs.kernel_shape.has
  /\ in0.has /\ ~attrs.auto_pad /\ Groups = 1
  /\ SpatialRank >= 1
  /\ ~PadsMalformed /\ ~StridesMalformed
  /\ result = "fail"

(***************************************************************************)
(* Transpose convolution as the documentation reads it.                    *)
(***************************************************************************)
ConvTransposeDone == Finished /\ op = "ConvTranspose"
OutputPadding ==
  IF attrs.output_padding.has THEN attrs.output_padding.v
  ELSE Assign(SpatialRank, 0)
OutputShapeMalformed == BadLen(attrs.output_shape, SpatialRank)
OutputPaddingMalformed == BadLen(attrs.output_padding, SpatialRank)
TransposeKernelMalformed == KernelMalformed

\* an explicit output_shape with one extent per axis, none below the input's
\* (an unknown input dimension reads as 0)
OutputShapeFits ==
  /\ attrs.output_shape.has
  /\ SpatialRank >= 0
  /\ Len(attrs.output_shape.v) = SpatialRank
  /\ \A i \in 0 .. SpatialRank - 1 :
       attrs.output_shape.v[i + 1] >= dim_value(in0.dims[3 + i])

\* the output's spatial dimensions are the values of output_shape
SpatialIsOutputShape ==
  /\ Len(out) = 2 + SpatialRank
  /\ \A i \in 0 .. SpatialRank - 1 :
       out[3 + i] = DimVal(attrs.output_shape.v[i + 1])

(***************************************************************************)
(* C5. Transpose-convolution inference returns without error and without   *)
(* writing any output dimension whenever auto_pad is present, dilations is *)
(* present or group is not 1, whatever the rest of the node is.            *)
(***************************************************************************)
C5_UnsupportedSkips ==
  (/\ ConvTransposeDone
   /\ (attrs.auto_pad \/ attrs.dilations.has \/ Groups # 1))
  => result = "return" /\ NothingWritten

\* dilations alone stops a node that would otherwise get an output shape
C5_Witness ==
  /\ ConvTransposeDone
  /\ attrs.dilations.has
  /\ ~attrs.auto_pad
  /\ Groups = 1
  /\ in0.has /\ in1.has
  /\ SpatialRank >= 1
  /\ dim_size(in1) = dim_size(in0)
  /\ ~PadsMalformed /\ ~StridesMalformed /\ ~KernelMalformed
  /\ ~OutputShapeMalformed /\ ~OutputPaddingMalformed
  /\ result = "return"
  /\ NothingWritten

(***************************************************************************)
(* C6. Transpose-convolution inference without output_shape that writes an *)
(* output shape gives, on every spatial axis i whose input dimension is    *)
(* known, strides[i]*(input-1) + output_padding[i] + kernel[i] - pads[i]   *)
(* - pads[i + rank]. Stated for the axes the kernel has an extent for and  *)
(* the invocations that read nothing out of range.                         *)
(***************************************************************************)
C6_Dim(i) ==
  Strides[i + 1] * (in0.dims[3 + i].v - 1) + OutputPadding[i + 1]
    + Kernel[i + 1] - Pads[i + 1] - Pads[i + 1 + SpatialRank]

C6_OutputIsTransposeFormula ==
  (/\ ConvTransposeDone
   /\ ~attrs.output_shape.has
   /\ result = "return"
   /\ outSet
   /\ ~ub)
  => \A i \in 0 .. SpatialRank - 1 :
       (Known(i) /\ InRange(Kernel, i))
         => /\ Len(out) >= 3 + i
            /\ out[3 + i] = DimVal(C6_Dim(i))

(***************************************************************************)
(* C7. With an explicit output_shape of one extent per axis, none below    *)
(* the input's, the output's spatial dimensions are the output_shape       *)
(* values. As claimed: for every such node. As the code has it: for every  *)
(* such node with a non-empty output_shape on which inference gets past    *)
(* its returns (it writes an output shape) and completes; then no value of *)
(* pads, strides, output_padding or kernel_shape has any influence.        *)
(***************************************************************************)
C7_OutputShapeAlwaysTaken ==
  (ConvTransposeDone /\ OutputShapeFits) => SpatialIsOutputShape

C7_OutputShapeTakenWhenWritten ==
  (/\ ConvTransposeDone
   /\ OutputShapeFits
   /\ SpatialRank >= 1
   /\ outSet
   /\ result = "return")
  => SpatialIsOutputShape

\* output_shape is taken on a node whose pads, strides, output_padding and
\* kernel would give another extent on the first axis
C7_Witness ==
  /\ ConvTransposeDone
  /\ OutputShapeFits
  /\ SpatialRank >= 1
  /\ result = "return"
  /\ SpatialIsOutputShape
  /\ attrs.pads.has /\ attrs.strides.has /\ attrs.output_padding.has
  /\ Len(Kernel) = SpatialRank
  /\ Known(0)
  /\ C6_Dim(0) # attrs.output_shape.v[1]
  /\ attrs.output_shape.v[1] = in0.dims[3].v

(***************************************************************************)
(* C8. An explicit output_shape with an extent below the input's known     *)
(* spatial dimension ends transpose-convolution inference in a hard        *)
(* failure. Stated for the nodes on which inference reaches the            *)
(* comparison.                                                             *)
(***************************************************************************)
OutputShapeSmallSomewhere ==
  /\ attrs.output_shape.has
  /\ SpatialRank >= 1
  /\ Len(attrs.output_shape.v) = SpatialRank
  /\ \E i \in 0 .. SpatialRank - 1 :
       Known(i) /\ attrs.output_shape.v[i + 1] < in0.dims[3 + i].v

C8_SmallOutputShapeFails ==
  (ConvTransposeDone /\ outSet /\ ~ub /\ OutputShapeSmallSomewhere)
  => result = "fail"

(***************************************************************************)
(* C9. A pads, strides, kernel_shape, output_shape or output_padding       *)
(* attribute of the wrong length ends transpose-convolution inference in a *)
(* hard failure, not in a silent return. Stated for the nodes that pass    *)
(* every return taken before the lengths are looked at.                    *)
(***************************************************************************)
C9_MalformedFails ==
  (/\ ConvTransposeDone
   /\ in0.has /\ in1.has
   /\ ~attrs.auto_pad
   /\ SpatialRank >= 0
   /\ Groups = 1
   /\ ~attrs.dilations.has
   /\ (PadsMalformed \/ StridesMalformed \/ TransposeKernelMalformed
         \/ OutputShapeMalformed \/ OutputPaddingMalformed))
  => result = "fail"

(***************************************************************************)
(* C10. Region-of-interest pooling that accepts its two known input shapes *)
(* and its pooled_shape gives the output shape                             *)
(* [rois.dim(0), input.dim(1), pooled_shape[0], pooled_shape[1]].          *)
(***************************************************************************)
RoiPoolDone == Finished /\ op = "MaxRoiPool"

C10_RoiOutputShape ==
  (RoiPoolDone /\ in0.has /\ in1.has /\ result = "return")
  => /\ Len(attrs.pooled_shape.v) >= 2
     /\ out = <<in1.dims[1], in0.dims[2],
                DimVal(attrs.pooled_shape.v[1]),
                DimVal(attrs.pooled_shape.v[2])>>

(***************************************************************************)
(* C11. Region-of-interest pooling with both input shapes known ends in a   *)
(* hard failure, with no output shape written, if the first input has rank *)
(* below 2, the rois input has a rank other than 2, pooled_shape is absent *)
(* or pooled_shape has a length other than 2. Stated for the invocations   *)
(* that read nothing out of range.                                         *)
(***************************************************************************)
C11_RoiRejects ==
  (/\ RoiPoolDone
   /\ in0.has /\ in1.has
   /\ ~ub
   /\ \/ dim_size(in0) < 2
      \/ dim_size(in1) # 2
      \/ ~attrs.pooled_shape.has
      \/ Len(attrs.pooled_shape.v) # 2)
  => result = "fail" /\ NothingWritten

(***************************************************************************)
(* gloablPoolTypeShapeInference (GlobalAveragePool, GlobalMaxPool,         *)
(* GlobalLpPool): two returns, the batch and channel dimensions, then one  *)
(* dimension of value 1 per spatial axis.                                  *)
(***************************************************************************)
GlobalPoolOps == {"GlobalAveragePool", "GlobalMaxPool", "GlobalLpPool"}

GlobalPoolChecks ==
  IF ~hasNInputShapes(1) THEN Stop("return")
  ELSE IF dim_size(in0) < 2 THEN Stop("return")
  ELSE [res |-> "go", loc |-> [NoLocals EXCEPT !.n = dim_size(in0) - 2]]

GlobalPoolValidate ==
  /\ pc = "start"
  /\ op \in GlobalPoolOps
  /\ LET c == GlobalPoolChecks
     IN /\ loc' = c.loc
        /\ pc' = IF c.res = "go" THEN "header" ELSE "done"
        /\ result' = IF c.res = "go" THEN result ELSE c.res
  /\ UNCHANGED <<op, in0, in1, attrs, outSet, out, ub>>

GlobalPoolHeader ==
  /\ pc = "header"
  /\ op \in GlobalPoolOps
  /\ outSet' = TRUE
  /\ out' = <<in0.dims[1], in0.dims[2]>>
  /\ pc' = AfterHeader(loc.n)
  /\ result' = EndIfDone(loc.n)
  /\ UNCHANGED <<op, in0, in1, attrs, loc, ub>>

\* the output dimension of a spatial axis whose input dimension is d
\* (a variant: an axis of unknown extent stays unknown)
GlobalPoolDimIfKnown(d) == IF has_dim_value(d) THEN DimVal(1) ELSE DimUnset
GlobalPoolDim(d) == DimVal(1)

GlobalPoolAxis ==
  /\ pc = "loop"
  /\ op \in GlobalPoolOps
  /\ out' = Append(out, GlobalPoolDim(in0.dims[3 + loc.i]))
  /\ pc' = NextAxis(loc.i, loc.n)
  /\ result' = IF loc.i + 1 < loc.n THEN result ELSE "return"
  /\ loc' = [loc EXCEPT !.i = loc.i + 1]
  /\ UNCHANGED <<op, in0, in1, attrs, outSet, ub>>

NoAttrs ==
  [auto_pad |-> FALSE, group |-> NoInt, dilations |-> Absent, pads |-> Absent,
   strides |-> Absent, kernel_shape |-> Absent, output_shape |-> Absent,
   output_padding |-> Absent, pooled_shape |-> Absent]

InitGlobalPool ==
  /\ InitRun
  /\ \E o \in GlobalPoolOps, r \in -1 .. (MaxSpatial + 2) :
       \E x \in ShapesOf(r, LeadPairs, SeqsOf(SpatialDims, r - 2)) :
         /\ op = o
         /\ in0 = x
         /\ in1 = NoShape
         /\ attrs = NoAttrs

NextGlobalPool == GlobalPoolValidate \/ GlobalPoolHeader \/ GlobalPoolAxis

SpecGlobalPool == InitGlobalPool /\ [][NextGlobalPool]_vars

(***************************************************************************)
(* C12. Global pooling on a first input of known rank r >= 2 writes an     *)
(* output shape of rank r: dimensions 0 and 1 are the input's, copied as   *)
(* they are, and each of the r - 2 dimensions after them has the value 1,  *)
(* whether the input's spatial dimensions are known or not.                *)
(***************************************************************************)
GlobalPoolDone == Finished /\ op \in GlobalPoolOps

C12_GlobalPoolShape ==
  (GlobalPoolDone /\ in0.has /\ dim_size(in0) >= 2)
  => /\ result = "return"
     /\ outSet
     /\ Len(out) = dim_size(in0)
     /\ out[1] = in0.dims[1]
     /\ out[2] = in0.dims[2]
     /\ \A j \in 3 .. Len(out) : out[j] = DimVal(1)

\* two spatial axes, the first of them unknown, under a symbolic batch
C12_Witness ==
  /\ GlobalPoolDone
  /\ in0.has
  /\ dim_size(in0) >= 4
  /\ in0.dims[1] = DimParam
  /\ ~has_dim_value(in0.dims[3])
  /\ has_dim_value(in0.dims[4])
  /\ result = "return"
  /\ Len(out) = dim_size(in0)
  /\ out[3] = DimVal(1)

(***************************************************************************)
(* Flatten: the inference function of its schema. The axis attribute is a  *)
(* signed 64-bit integer, the function's axis and rank are int.            *)
(***************************************************************************)
\* A signed 64-bit integer as its two 32-bit words: hi the upper word and lo
\* the lower one, each read as a signed 32-bit integer (two's complement),
\* so that the integer is hi * 2^32 + (lo mod 2^32).
Int64(hi, lo) == [hi |-> hi, lo |-> lo]
\* the 64-bit integer of a small n >= 0
Int64Of(n) == Int64(0, n)

\* static_cast<int>(int64_t): the lower 32 bits
ToInt(a) == a.lo

\* product of two dimensions: known when both are
DimMul(dim1, dim2) ==
  IF has_dim_value(dim1) /\ has_dim_value(dim2)
    THEN DimVal(dim_value(dim1) * dim_value(dim2))
    ELSE DimUnset

\* multiplyDims(shape, from, upto_exclusive): the product of shape.dim(i),
\* from <= i < upto_exclusive, starting from the value 1
RECURSIVE multiplyDims(_, _, _)
multiplyDims(shape, from, upto_exclusive) ==
  IF from >= upto_exclusive THEN DimVal(1)
  ELSE DimMul(multiplyDims(shape, from, upto_exclusive - 1),
              shape.dims[upto_exclusive])

\* "Invalid value(axis) for attribute 'axis'"
FlattenAxisInvalid(axis, rank) == axis > rank \/ axis < 0

FlattenChecks ==
  IF ~hasNInputShapes(1) THEN Stop("return")
  ELSE
    LET rank == dim_size(in0)
        axis == ToInt(getAttribute(attrs.axis, Int64Of(1)))
    IN IF FlattenAxisInvalid(axis, rank) THEN Stop("fail")
       ELSE [res |-> "go", loc |-> [NoLocals EXCEPT !.n = rank, !.i = axis]]

FlattenValidate ==
  /\ pc = "start"
  /\ op = "Flatten"
  /\ LET c == FlattenChecks
     IN /\ loc' = c.loc
        /\ pc' = IF c.res = "go" THEN "header" ELSE "done"
        /\ result' = IF c.res = "go" THEN result ELSE c.res
  /\ UNCHANGED <<op, in0, in1, attrs, outSet, out, ub>>

\* the two dimensions handed to updateOutputShape
\* (a variant: the dimension at axis goes to the outer product)
FlattenOutputSplitAfter(shape, axis, rank) ==
  LET cut == IF axis < rank THEN axis + 1 ELSE rank
  IN <<multiplyDims(shape, 0, cut), multiplyDims(shape, cut, rank)>>
FlattenOutput(shape, axis, rank) ==
  <<multiplyDims(shape, 0, axis), multiplyDims(shape, axis, rank)>>

FlattenWrite ==
  /\ pc = "header"
  /\ op = "Flatten"
  /\ outSet' = TRUE
  /\ out' = FlattenOutput(in0, loc.i, loc.n)
  /\ pc' = "done"
  /\ result' = "return"
  /\ UNCHANGED <<op, in0, in1, attrs, loc, ub>>

FlattenInputDims == {DimUnset, DimParam, DimVal(2), DimVal(MaxDim)}
\* axis: absent, or each of the upper words -1, 0, 1 over lower words from
\* -1 to one past the largest rank
AxisAttrs ==
  {[has |-> FALSE, v |-> Int64Of(0)]}
    \cup {[has |-> TRUE, v |-> Int64(h, l)] :
            h \in -1 .. 1, l \in -1 .. (MaxSpatial + 3)}

InitFlatten ==
  /\ InitRun
  /\ \E r \in -1 .. (MaxSpatial + 2), a \in AxisAttrs :
       \E x \in (IF r < 0 THEN {NoShape}
                 ELSE {Shape(d) : d \in SeqsOf(FlattenInputDims, r)}) :
         /\ op = "Flatten"
         /\ in0 = x
         /\ in1 = NoShape
         /\ attrs = [axis |-> a]

NextFlatten == FlattenValidate \/ FlattenWrite

SpecFlatten == InitFlatten /\ [][NextFlatten]_vars

(***************************************************************************)
(* Flatten as the documentation reads it: the axis attribute with its      *)
(* default, as the 64-bit integer it is.                                   *)
(***************************************************************************)
FlattenDone == Finished /\ op = "Flatten"
Axis == getAttribute(attrs.axis, Int64Of(1))
\* the attribute's value lies in [0, rank]
AxisWithinRank == Axis.hi = 0 /\ Axis.lo >= 0 /\ Axis.lo <= dim_size(in0)

\* the input dimensions number a .. b, counted from 1
AllKnown(a, b) == \A j \in a .. b : has_dim_value(in0.dims[j])
RECURSIVE ValueProduct(_, _)
ValueProduct(a, b) ==
  IF a > b THEN 1 ELSE in0.dims[a].v * ValueProduct(a + 1, b)

(***************************************************************************)
(* C13. Flatten with axis in [0, rank] on an input of known rank writes an *)
(* output of rank 2: dimension 0 is the product of the input dimensions    *)
(* before axis, dimension 1 the product of those from axis on, an empty    *)
(* range giving the value 1; a product is unknown exactly when one of the  *)
(* dimensions in its range is.                                             *)
(***************************************************************************)
C13_IsProduct(d, a, b) ==
  IF AllKnown(a, b) THEN d = DimVal(ValueProduct(a, b))
  ELSE ~has_dim_value(d)

C13_FlattenShape ==
  (FlattenDone /\ in0.has /\ AxisWithinRank)
  => /\ result = "return"
     /\ outSet
     /\ Len(out) = 2
     /\ C13_IsProduct(out[1], 1, Axis.lo)
     /\ C13_IsProduct(out[2], Axis.lo + 1, dim_size(in0))

\* an explicit axis strictly inside a shape whose outer dimensions are known
\* and whose inner ones are not all known
C13_Witness ==
  /\ FlattenDone
  /\ in0.has
  /\ attrs.axis.has
  /\ AxisWithinRank
  /\ Axis.lo >= 2
  /\ Axis.lo < dim_size(in0)
  /\ result = "return"
  /\ Len(out) = 2
  /\ has_dim_value(out[1])
  /\ out[1].v > MaxDim
  /\ ~has_dim_value(out[2])

(***************************************************************************)
(* C14. Flatten on an input of known rank ends in a hard failure, with no  *)
(* output shape written, for every value of the 64-bit axis attribute      *)
(* outside [0, rank], values beyond the 32-bit range included, and for no  *)
(* value inside [0, rank].                                                 *)
(***************************************************************************)
C14_AxisOutOfRangeFails ==
  (FlattenDone /\ in0.has)
  => ((result = "fail" /\ NothingWritten) <=> ~AxisWithinRank)

(***************************************************************************)
(* The two functions that loop over the kernel's axes, run side by side:   *)
(* a node is a sliding-window node or a transpose-convolution node.        *)
(***************************************************************************)
InitWindow == InitConvPool \/ InitConvTranspose

NextWindow == NextConvPool \/ NextConvTranspose

SpecWindow == InitWindow /\ [][NextWindow]_vars

WindowDone == ConvPoolDone \/ ConvTransposeDone

(***************************************************************************)
(* C15. Sliding-window inference, and transpose-convolution inference      *)
(* without output_shape, that writes an output shape and completes: the    *)
(* output has the rank of the first input, and its dimension on spatial    *)
(* axis i carries a value if and only if the input's dimension on axis i   *)
(* is known. Stated for the invocations that read nothing out of range and *)
(* divide by no zero.                                                      *)
(***************************************************************************)
C15_UnknownAxisStaysUnknown ==
  (/\ WindowDone
   /\ ~attrs.output_shape.has
   /\ outSet
   /\ result = "return"
   /\ ~ub)
  => /\ Len(out) = 2 + SpatialRank
     /\ \A i \in 0 .. SpatialRank - 1 : has_dim_value(out[3 + i]) <=> Known(i)

(***************************************************************************)
(* C16. Conv and ConvTranspose without kernel_shape, both input shapes     *)
(* known, and a dimension of index 2 or more of the second input unknown:  *)
(* no output dimension is written, batch and channel included, with or     *)
(* without an explicit output_shape. As claimed: inference always returns  *)
(* without error. As the code has it: Conv fails hard when a check placed  *)
(* before the kernel's fails (auto_pad absent and: rank below 2, or        *)
(* dilations of the wrong length, or, with group 1, pads or strides of the *)
(* wrong length); otherwise, and always in ConvTranspose, it returns       *)
(* without error.                                                          *)
(***************************************************************************)
KernelFromInputUnknown ==
  /\ op \in {"Conv", "ConvTranspose"}
  /\ ~attrs.kernel_shape.has
  /\ in0.has /\ in1.has
  /\ \E j \in 3 .. dim_size(in1) : ~has_dim_value(in1.dims[j])

C16_UnknownKernelDimAlwaysSkips ==
  (WindowDone /\ KernelFromInputUnknown)
  => result = "return" /\ NothingWritten

C16_FailsBeforeKernel ==
  /\ op = "Conv"
  /\ ~attrs.auto_pad
  /\ \/ dim_size(in0) < 2
     \/ DilationsMalformed
     \/ (Groups = 1 /\ (PadsMalformed \/ StridesMalformed))

C16_UnknownKernelDimSkips ==
  (WindowDone /\ KernelFromInputUnknown)
  => /\ NothingWritten
     /\ result = (IF C16_FailsBeforeKernel THEN "fail" ELSE "return")

\* the unknown kernel dimension is what stops a transpose convolution with an
\* explicit output_shape that fits
C16_Witness ==
  /\ ConvTransposeDone
  /\ KernelFromInputUnknown
  /\ ~attrs.auto_pad /\ Groups = 1 /\ ~attrs.dilations.has
  /\ SpatialRank >= 1
  /\ dim_size(in1) = dim_size(in0)
  /\ ~PadsMalformed /\ ~StridesMalformed /\ ~OutputPaddingMalformed
  /\ OutputShapeFits
  /\ result = "return"
  /\ NothingWritten

(***************************************************************************)
(* C17. The leading dimensions of a sliding-window output are copies:      *)
(* dimension 0 of the first input's dimension 0, dimension 1 of the first  *)
(* input's dimension 1 for the pooling operators and of the second input's *)
(* dimension 0 for Conv, whether they hold a value, a symbol or nothing.   *)
(* As claimed: whenever an output shape is written. As the code has it:    *)
(* from the moment the output shape is written on, except that Conv with a *)
(* second input of rank 0 fails hard having written dimension 0 only.      *)
(***************************************************************************)
C17_Channel == IF op = "Conv" THEN in1.dims[1] ELSE in0.dims[2]

C17_LeadingDimsCopiedAlways ==
  (ConvPoolDone /\ outSet)
  => /\ Len(out) >= 2
     /\ out[1] = in0.dims[1]
     /\ out[2] = C17_Channel

C17_LeadingDimsCopied ==
  (op \in ConvPoolOps /\ outSet)
  => /\ Len(out) >= 1
     /\ out[1] = in0.dims[1]
     /\ IF op = "Conv" /\ dim_size(in1) < 1
          THEN result = "fail" /\ Len(out) = 1
          ELSE Len(out) >= 2 /\ out[2] = C17_Channel

\* a Conv whose second input's leading dimension is not the first input's
\* channel dimension, with an attribute on every axis
C17_Witness ==
  /\ ConvPoolDone
  /\ op = "Conv"
  /\ result = "return"
  /\ SpatialRank >= 1
  /\ Len(out) = 2 + SpatialRank
  /\ attrs.pads.has /\ attrs.strides.has /\ attrs.kernel_shape.has
  /\ in1.dims[1] # in0.dims[2]
  /\ out[1] = in0.dims[1]
  /\ out[2] = in1.dims[1]

(***************************************************************************)
(* C18. Transpose convolution with an explicit output_shape, i being the   *)
(* first axis whose output_shape extent is below the input's: no output    *)
(* dimension is written for axis i or any later axis, and once inference   *)
(* has written an output shape (reading nothing out of range) it returns   *)
(* with exactly the batch dimension, the channel dimension and the         *)
(* output_shape extents of the axes before i.                              *)
(***************************************************************************)
OutputShapeSmallAt(i) ==
  Known(i) /\ attrs.output_shape.v[i + 1] < in0.dims[3 + i].v

FirstSmallAxis ==
  CHOOSE i \in 0 .. SpatialRank - 1 :
    /\ OutputShapeSmallAt(i)
    /\ \A j \in 0 .. i - 1 : ~OutputShapeSmallAt(j)

C18_StopsAtFirstSmallAxis ==
  (ConvTransposeDone /\ OutputShapeSmallSomewhere)
  => /\ Len(out) <= 2 + FirstSmallAxis
     /\ (outSet /\ ~ub)
          => /\ result = "return"
             /\ Len(out) = 2 + FirstSmallAxis
             /\ out[1] = in0.dims[1]
             /\ out[2] = in1.dims[2]
             /\ \A j \in 0 .. FirstSmallAxis - 1 :
                  out[3 + j] = DimVal(attrs.output_shape.v[j + 1])

\* the first axis fits and is written, the second is too small
C18_Witness ==
  /\ ConvTransposeDone
  /\ OutputShapeSmallSomewhere
  /\ outSet /\ ~ub
  /\ FirstSmallAxis = 1
  /\ result = "return"
  /\ Len(out) = 3
  /\ out[3] = DimVal(attrs.output_shape.v[1])

(***************************************************************************)
(* C19. Every dimension value written by sliding-window or                 *)
(* transpose-convolution inference is non-negative, for known input        *)
(* dimensions >= 0, kernel extents, strides and dilations >= 1, pads and   *)
(* output paddings >= 0. Stated for the invocations that read nothing out  *)
(* of range.                                                               *)
(***************************************************************************)
AllAtLeast(s, lo) == \A j \in 1 .. Len(s) : s[j] >= lo

AttributesInDomain ==
  /\ in0.has
  /\ \A j \in 1 .. dim_size(in0) : dim_value(in0.dims[j]) >= 0
  /\ AllAtLeast(Kernel, 1)
  /\ AllAtLeast(Strides, 1)
  /\ AllAtLeast(Dilations, 1)
  /\ AllAtLeast(Pads, 0)
  /\ AllAtLeast(OutputPadding, 0)
  /\ AllAtLeast(attrs.output_shape.v, 0)

C19_WrittenDimsNonNegative ==
  (/\ op \in ConvPoolOps \cup {"ConvTranspose"}
   /\ outSet
   /\ ~ub
   /\ AttributesInDomain)
  => \A j \in 1 .. Len(out) : has_dim_value(out[j]) => out[j].v >= 0

(***************************************************************************)
(* C20. Sliding-window or transpose-convolution inference that writes an   *)
(* output shape and completes, no validation return in between, gives an   *)
(* output of the first input's rank, whatever the rank of the second       *)
(* input. Stated for the invocations that read nothing out of range.       *)
(***************************************************************************)
C20_OutputRankIsInputRank ==
  (/\ WindowDone
   /\ outSet
   /\ result = "return"
   /\ ~(op = "ConvTranspose" /\ OutputShapeSmallSomewhere)
   /\ ~ub)
  => Len(out) = dim_size(in0)

(***************************************************************************)
(* Every inference function of the file, run side by side: a node belongs  *)
(* to one of them.                                                         *)
(***************************************************************************)
InitInference == InitWindow \/ InitRoiPool \/ InitGlobalPool \/ InitFlatten

NextInference == NextWindow \/ NextRoiPool \/ NextGlobalPool \/ NextFlatten

SpecInference == InitInference /\ [][NextInference]_vars

(***************************************************************************)
(* C21. Index safety: in sliding-window, transpose-convolution and         *)
(* region-of-interest inference, every read of a dimension of an input     *)
(* shape and of an entry of pads, strides, dilations, kernel_shape,        *)
(* output_padding, output_shape and pooled_shape uses an index below the   *)
(* length of the sequence read. Stated on the state each read is made in,  *)
(* up to the first read out of range.                                      *)
(***************************************************************************)
\* the reads of the batch and channel dimensions
HeaderReadsInRange ==
  /\ InRange(in0.dims, 0)
  /\ op \in PoolOps => InRange(in0.dims, 1)
  /\ (op = "Conv" /\ dim_size(in1) >= 1) => InRange(in1.dims, 0)
  /\ op = "ConvTranspose" => InRange(in1.dims, 1)
  /\ op = "MaxRoiPool"
       => /\ InRange(in1.dims, 0)
          /\ InRange(in0.dims, 1)
          /\ InRange(loc.output_shape, 0)
          /\ InRange(loc.output_shape, 1)

\* the reads of iteration loc.i of the loop over the kernel's axes
AxisReadsInRange ==
  LET i == loc.i
      size == Len(loc.kernel_shape)
  IN /\ InRange(in0.dims, 2 + i)
     /\ has_dim_value(in0.dims[3 + i])
          => /\ InRange(loc.kernel_shape, i)
             /\ InRange(loc.pads, i)
             /\ InRange(loc.pads, i + size)
             /\ InRange(loc.strides, i)
             /\ op = "Conv" => InRange(loc.dilations, i)
             /\ op = "ConvTranspose" => InRange(loc.output_padding, i)

\* the reads of iteration loc.i of the loop over output_shape
GivenReadsInRange ==
  /\ InRange(loc.output_shape, loc.i)
  /\ InRange(in0.dims, 2 + loc.i)

C21_ReadsInRange ==
  (op \in ConvPoolOps \cup {"ConvTranspose", "MaxRoiPool"} /\ ~ub)
  => /\ pc = "header" => HeaderReadsInRange
     /\ pc = "loop" => AxisReadsInRange
     /\ pc = "given" => GivenReadsInRange

(***************************************************************************)
(* C22. A hard failure and the output shape. As claimed: no invocation of  *)
(* an inference function of the file ends in a hard failure with a         *)
(* dimension already added to the output shape. As the code has it: that   *)
(* is so in every function but one case of convPoolTypeAndShapeInference,  *)
(* Conv with a second input of rank 0, which fails having added the batch  *)
(* dimension and nothing else; and such a Conv that gets as far as the     *)
(* output shape always ends so.                                            *)
(***************************************************************************)
C22_FailsBeforeWriting ==
  result = "fail" => NothingWritten

ConvWeightRankZero == op = "Conv" /\ in1.has /\ dim_size(in1) = 0

C22_FailsBeforeWritingButRankZero ==
  /\ result = "fail"
       => \/ NothingWritten
          \/ ConvWeightRankZero /\ outSet /\ out = <<in0.dims[1]>>
  /\ (Finished /\ ConvWeightRankZero /\ outSet) => result = "fail"

\* a hard failure of each kind: before the output shape exists, and after
\* its batch dimension
C22_Witness ==
  /\ Finished
  /\ result = "fail"
  /\ ConvWeightRankZero
  /\ attrs.kernel_shape.has
  /\ SpatialRank >= 1
  /\ outSet
  /\ out = <<in0.dims[1]>>

(***************************************************************************)
(* C23. Sliding-window inference never divides by zero: the computation of *)
(* the output dimension of a known input axis is reached only with a       *)
(* non-zero stride, for every strides attribute of the right length.       *)
(***************************************************************************)
C23_DivisorNonZero ==
  (/\ pc = "loop"
   /\ op \in ConvPoolOps
   /\ ~ub
   /\ InRange(in0.dims, 2 + loc.i)
   /\ has_dim_value(in0.dims[3 + loc.i])
   /\ InRange(loc.strides, loc.i))
  => loc.strides[loc.i + 1] # 0

====
